---- MODULE Spec2Model ----
(***************************************************************************)
(* Model of BST<T> (include/bst.hpp): a binary search tree whose nodes own  *)
(* their children through raw pointers.                                     *)
(*                                                                          *)
(* Memory is modelled explicitly.  `heap` maps the addresses of the nodes   *)
(* that are allocated and not yet destroyed to their three fields; an       *)
(* address outside DOMAIN heap is destroyed (or was never allocated), and   *)
(* any read or write through it, or a second delete of it, is undefined     *)
(* behaviour, which the model records in `ub` and after which it models     *)
(* nothing further (every action is disabled once ub holds).                *)
(*                                                                          *)
(* A TreeNode*& parameter is a slot (the root field, or the left/right      *)
(* field of a node); a const T& parameter is a reference (to a value of the *)
(* caller, or to the data field of a node).                                 *)
(*                                                                          *)
(* Addresses carry no information but identity, so between two calls the    *)
(* live nodes are renamed to their pre-order numbers (Canon).  Within a     *)
(* call, and so in every relation between a state and its successor's       *)
(* `last` record, addresses are those of the state the call started in.     *)
(***************************************************************************)
EXTENDS Integers, Sequences, FiniteSets

\* ------------------------------------------------------------------ bounds
\* number of keys of the universe 20, 30, ..., 10*(NumKeys+1)
NumKeys == 5
\* cap on the number of successful inserts counted by SpecCount
MaxInserts == 5

\* ---------------------------------------------------------------- universes
\* The client draws the values it passes from one set of keys: the keys of
\* the single-child scenario (10, 5, 1), or the first NumKeys keys of
\* 20, 30, ...; SpecExample uses the keys of the two-children scenario.
SmallKeys == {1, 5, 10}
LargeKeys == {10 * (i + 1) : i \in 1..NumKeys}
ExampleKeys == {20, 30, 40, 50, 60, 70, 80}
Universes == {SmallKeys, LargeKeys}

VARIABLES
  heap,     \* address -> [data, left, right] of every live TreeNode
  root,     \* BST::root
  keys,     \* the values this client passes to the tree
  model,    \* reference mathematical set driven by the same calls
  last,     \* the last call: operation, argument, result, what it did
  ub,       \* undefined behaviour has happened
  nIns,     \* number of insert calls that returned true (SpecCount)
  nRem      \* number of remove calls that returned true (SpecCount)

vars == <<heap, root, keys, model, last, ub, nIns, nRem>>

\* nullptr
NULL == 0

\* ------------------------------------------------------------ memory of a call
\* heap, root: as the variables; deleted: addresses destroyed so far, in
\* order; created: number of nodes allocated so far; cases: the removal cases
\* entered so far, in order; inner: the results of the recursive remove calls
\* made by the two-children case; ub: undefined behaviour so far.
Mem(h, r) ==
  [heap |-> h, root |-> r, deleted |-> <<>>, created |-> 0,
   cases |-> <<>>, inner |-> <<>>, ub |-> FALSE]

Fault(m) == [m EXCEPT !.ub = TRUE]

Live(m, a) == a \in DOMAIN m.heap

\* slots (TreeNode*&)
RootSlot == [node |-> NULL, field |-> "root"]
LeftOf(a) == [node |-> a, field |-> "left"]
RightOf(a) == [node |-> a, field |-> "right"]

SlotOk(m, slot) == slot.field = "root" \/ Live(m, slot.node)

Get(m, slot) ==
  IF slot.field = "root" THEN m.root
  ELSE IF slot.field = "left" THEN m.heap[slot.node].left
  ELSE m.heap[slot.node].right

Set(m, slot, a) ==
  IF slot.field = "root" THEN [m EXCEPT !.root = a]
  ELSE IF slot.field = "left" THEN [m EXCEPT !.heap[slot.node].left = a]
  ELSE [m EXCEPT !.heap[slot.node].right = a]

\* references (const T&)
ExtRef(v) == [node |-> NULL, val |-> v]
NodeRef(a) == [node |-> a, val |-> 0]

RefOk(m, ref) == ref.node = NULL \/ Live(m, ref.node)

Deref(m, ref) == IF ref.node = NULL THEN ref.val ELSE m.heap[ref.node].data

\* ------------------------------------------------------------------ TreeNode
\* new TreeNode(value): a node at an address that is neither live nor was
\* destroyed during this call, with both children null
NewAddr(m) ==
  CHOOSE a \in 1..(Cardinality(DOMAIN m.heap) + Len(m.deleted) + 1) :
    /\ a \notin DOMAIN m.heap
    /\ \A i \in 1..Len(m.deleted) : m.deleted[i] # a
    /\ \A b \in 1..(a - 1) :
         b \in DOMAIN m.heap \/ \E i \in 1..Len(m.deleted) : m.deleted[i] = b

TreeNode(m, a, value) ==
  [m EXCEPT !.heap = [b \in DOMAIN m.heap \cup {a} |->
                        IF b = a THEN [data |-> value, left |-> NULL, right |-> NULL]
                        ELSE m.heap[b]],
            !.created = @ + 1]

\* delete p: no-op on nullptr; otherwise ~TreeNode (delete left; delete right)
\* and then the release of the node itself
RECURSIVE Delete(_, _)
Delete(m, a) ==
  IF m.ub \/ a = NULL THEN m
  ELSE IF ~Live(m, a) THEN Fault(m)
  ELSE LET m1 == Delete(m, m.heap[a].left)
           m2 == IF m1.ub THEN m1
                 ELSE IF ~Live(m1, a) THEN Fault(m1)
                 ELSE Delete(m1, m1.heap[a].right)
       IN IF m2.ub THEN m2
          ELSE IF ~Live(m2, a) THEN Fault(m2)
          ELSE [m2 EXCEPT !.heap = [b \in DOMAIN m2.heap \ {a} |-> m2.heap[b]],
                          !.deleted = Append(@, a)]

\* faulty variant of min: does not walk down, answers the node it is called on
minShallow(m, a) ==
  IF ~Live(m, a) THEN [m |-> Fault(m), ret |-> NULL]
  ELSE [m |-> m, ret |-> a]

\* TreeNode::min(), called on node a: the result carries the memory (for ub)
RECURSIVE min(_, _)
min(m, a) ==
  IF ~Live(m, a) THEN [m |-> Fault(m), ret |-> NULL]
  ELSE IF m.heap[a].left # NULL THEN min(m, m.heap[a].left)
  ELSE [m |-> m, ret |-> a]

\* TreeNode::max(), called on node a
RECURSIVE max(_, _)
max(m, a) ==
  IF ~Live(m, a) THEN [m |-> Fault(m), ret |-> NULL]
  ELSE IF m.heap[a].right # NULL THEN max(m, m.heap[a].right)
  ELSE [m |-> m, ret |-> a]

\* ----------------------------------------------------------- private methods
\* faulty variant of insert: the first comparison is <= instead of <
RECURSIVE insertLeq(_, _, _)
insertLeq(m, slot, value) ==
  IF m.ub THEN [m |-> m, ret |-> FALSE]
  ELSE IF ~SlotOk(m, slot) THEN [m |-> Fault(m), ret |-> FALSE]
  ELSE LET node == Get(m, slot) IN
    IF node = NULL THEN
      IF ~RefOk(m, value) THEN [m |-> Fault(m), ret |-> FALSE]
      ELSE LET a == NewAddr(m)
           IN [m |-> Set(TreeNode(m, a, Deref(m, value)), slot, a), ret |-> TRUE]
    ELSE IF ~Live(m, node) \/ ~RefOk(m, value) THEN [m |-> Fault(m), ret |-> FALSE]
    ELSE IF Deref(m, value) <= m.heap[node].data THEN insertLeq(m, LeftOf(node), value)
    ELSE IF m.heap[node].data < Deref(m, value) THEN insertLeq(m, RightOf(node), value)
    ELSE [m |-> m, ret |-> FALSE]

\* bool insert(TreeNode*& node, const T& value)
RECURSIVE insert(_, _, _)
insert(m, slot, value) ==
  IF m.ub THEN [m |-> m, ret |-> FALSE]
  ELSE IF ~SlotOk(m, slot) THEN [m |-> Fault(m), ret |-> FALSE]
  ELSE LET node == Get(m, slot) IN
    IF node = NULL THEN
      IF ~RefOk(m, value) THEN [m |-> Fault(m), ret |-> FALSE]
      ELSE LET a == NewAddr(m)
           IN [m |-> Set(TreeNode(m, a, Deref(m, value)), slot, a), ret |-> TRUE]
    ELSE IF ~Live(m, node) \/ ~RefOk(m, value) THEN [m |-> Fault(m), ret |-> FALSE]
    ELSE IF Deref(m, value) < m.heap[node].data THEN insert(m, LeftOf(node), value)
    ELSE IF m.heap[node].data < Deref(m, value) THEN insert(m, RightOf(node), value)
    ELSE [m |-> m, ret |-> FALSE]

\* faulty variant of contain: a greater value is looked for on the left too
RECURSIVE containLeftOnly(_, _, _)
containLeftOnly(m, node, value) ==
  IF node = NULL THEN [m |-> m, ret |-> FALSE]
  ELSE IF ~Live(m, node) \/ ~RefOk(m, value) THEN [m |-> Fault(m), ret |-> FALSE]
  ELSE IF Deref(m, value) < m.heap[node].data THEN containLeftOnly(m, m.heap[node].left, value)
  ELSE IF m.heap[node].data < Deref(m, value) THEN containLeftOnly(m, m.heap[node].left, value)
  ELSE [m |-> m, ret |-> TRUE]

\* bool contain(const TreeNode* node, const T& value) const
RECURSIVE contain(_, _, _)
contain(m, node, value) ==
  IF node = NULL THEN [m |-> m, ret |-> FALSE]
  ELSE IF ~Live(m, node) \/ ~RefOk(m, value) THEN [m |-> Fault(m), ret |-> FALSE]
  ELSE IF Deref(m, value) < m.heap[node].data THEN contain(m, m.heap[node].left, value)
  ELSE IF m.heap[node].data < Deref(m, value) THEN contain(m, m.heap[node].right, value)
  ELSE [m |-> m, ret |-> TRUE]

\* TreeNode* find_node(TreeNode* node, const T& value) const
RECURSIVE find_node(_, _, _)
find_node(m, node, value) ==
  IF node = NULL THEN [m |-> m, ret |-> NULL]
  ELSE IF ~Live(m, node) \/ ~RefOk(m, value) THEN [m |-> Fault(m), ret |-> NULL]
  ELSE IF Deref(m, value) < m.heap[node].data THEN find_node(m, m.heap[node].left, value)
  ELSE IF m.heap[node].data < Deref(m, value) THEN find_node(m, m.heap[node].right, value)
  ELSE [m |-> m, ret |-> node]

\* remove, case 1 (leaf): delete node; node = nullptr;
RemoveLeaf(m, slot, node) ==
  LET m1 == Delete([m EXCEPT !.cases = Append(@, 1)], node)
  IN IF m1.ub THEN m1
     ELSE IF ~SlotOk(m1, slot) THEN Fault(m1)
     ELSE Set(m1, slot, NULL)

\* faulty variant of case 2: temp->right is not cleared before delete temp
RemoveOnlyRightKeepLink(m, slot, node) ==
  LET temp == node
      m1 == Set([m EXCEPT !.cases = Append(@, 2)], slot, m.heap[node].right)
  IN IF ~Live(m1, temp) THEN Fault(m1)
     ELSE Delete(m1, temp)

\* remove, case 2 (only a right child):
\* temp = node; node = node->right; temp->right = nullptr; delete temp;
RemoveOnlyRight(m, slot, node) ==
  LET temp == node
      m1 == Set([m EXCEPT !.cases = Append(@, 2)], slot, m.heap[node].right)
  IN IF ~Live(m1, temp) THEN Fault(m1)
     ELSE Delete([m1 EXCEPT !.heap[temp].right = NULL], temp)

\* faulty variant of case 3: promotes node->right, which is null
RemoveOnlyLeftPromoteRight(m, slot, node) ==
  LET temp == node
      m1 == Set([m EXCEPT !.cases = Append(@, 3)], slot, m.heap[node].right)
  IN IF ~Live(m1, temp) THEN Fault(m1)
     ELSE Delete([m1 EXCEPT !.heap[temp].left = NULL], temp)

\* remove, case 3 (only a left child):
\* temp = node; node = node->left; temp->left = nullptr; delete temp;
RemoveOnlyLeft(m, slot, node) ==
  LET temp == node
      m1 == Set([m EXCEPT !.cases = Append(@, 3)], slot, m.heap[node].left)
  IN IF ~Live(m1, temp) THEN Fault(m1)
     ELSE Delete([m1 EXCEPT !.heap[temp].left = NULL], temp)

\* faulty variant of the choice in case 4: the greatest node of the right subtree
SuccessorMax(m, node) == max(m, m.heap[node].right)

\* faulty variant of the choice in case 4: the predecessor, node->left->max()
SuccessorPredecessor(m, node) == max(m, m.heap[node].left)

\* the node whose value replaces the removed one in case 4:
\* successor = node->right->min()
Successor(m, node) == min(m, m.heap[node].right)

RECURSIVE remove(_, _, _)

\* faulty variant of case 4: the duplicate is not removed
RemoveTwoChildrenKeepDuplicate(m, slot, node) ==
  LET s == Successor([m EXCEPT !.cases = Append(@, 4)], node)
      successor == s.ret
  IN IF s.m.ub THEN s.m
     ELSE [s.m EXCEPT !.heap[node].data = s.m.heap[successor].data]

\* faulty variant of case 4: the value is copied after the recursive remove
RemoveTwoChildrenCopyLate(m, slot, node) ==
  LET s == Successor([m EXCEPT !.cases = Append(@, 4)], node)
      successor == s.ret
  IN IF s.m.ub THEN s.m
     ELSE LET r == remove(s.m, RightOf(node), NodeRef(successor))
              m1 == [r.m EXCEPT !.inner = Append(@, r.ret)]
          IN IF m1.ub THEN m1
             ELSE IF ~Live(m1, node) \/ ~Live(m1, successor) THEN Fault(m1)
             ELSE [m1 EXCEPT !.heap[node].data = m1.heap[successor].data]

\* remove, case 4 (two children): successor = node->right->min();
\* node->data = successor->data; remove(node->right, successor->data);
RemoveTwoChildren(m, slot, node) ==
  LET s == Successor([m EXCEPT !.cases = Append(@, 4)], node)
      successor == s.ret
  IN IF s.m.ub THEN s.m
     ELSE LET m1 == [s.m EXCEPT !.heap[node].data = s.m.heap[successor].data]
              r == remove(m1, RightOf(node), NodeRef(successor))
          IN [r.m EXCEPT !.inner = Append(@, r.ret)]

\* bool remove(TreeNode*& node, const T& value)
remove(m, slot, value) ==
  IF m.ub THEN [m |-> m, ret |-> FALSE]
  ELSE IF ~SlotOk(m, slot) THEN [m |-> Fault(m), ret |-> FALSE]
  ELSE LET node == Get(m, slot) IN
    IF node = NULL THEN [m |-> m, ret |-> FALSE]
    ELSE IF ~Live(m, node) \/ ~RefOk(m, value) THEN [m |-> Fault(m), ret |-> FALSE]
    ELSE IF Deref(m, value) < m.heap[node].data THEN remove(m, LeftOf(node), value)
    ELSE IF m.heap[node].data < Deref(m, value) THEN remove(m, RightOf(node), value)
    ELSE IF m.heap[node].left = NULL /\ m.heap[node].right = NULL THEN
      [m |-> RemoveLeaf(m, slot, node), ret |-> TRUE]
    ELSE IF m.heap[node].left = NULL THEN
      [m |-> RemoveOnlyRight(m, slot, node), ret |-> TRUE]
    ELSE IF m.heap[node].right = NULL THEN
      [m |-> RemoveOnlyLeft(m, slot, node), ret |-> TRUE]
    ELSE
      [m |-> RemoveTwoChildren(m, slot, node), ret |-> TRUE]

\* in_order(node, result): left, node, right
RECURSIVE in_order(_, _)
in_order(h, node) ==
  IF node \notin DOMAIN h THEN <<>>
  ELSE in_order(h, h[node].left) \o <<h[node].data>> \o in_order(h, h[node].right)

\* faulty variant of pre_order: the node is emitted after its left subtree
RECURSIVE pre_orderLeftFirst(_, _)
pre_orderLeftFirst(h, node) ==
  IF node \notin DOMAIN h THEN <<>>
  ELSE pre_orderLeftFirst(h, h[node].left) \o <<h[node].data>>
       \o pre_orderLeftFirst(h, h[node].right)

\* pre_order(node, result): node, left, right
RECURSIVE pre_order(_, _)
pre_order(h, node) ==
  IF node \notin DOMAIN h THEN <<>>
  ELSE <<h[node].data>> \o pre_order(h, h[node].left) \o pre_order(h, h[node].right)

\* post_order(node, result): left, right, node
RECURSIVE post_order(_, _)
post_order(h, node) ==
  IF node \notin DOMAIN h THEN <<>>
  ELSE post_order(h, h[node].left) \o post_order(h, h[node].right) \o <<h[node].data>>


\* --------------------------------------------------------- shape of the heap
\* number of slots (root, left and right fields) that hold address a
Refs(h, r, a) ==
  (IF r = a THEN 1 ELSE 0)
  + Cardinality({b \in DOMAIN h : h[b].left = a})
  + Cardinality({b \in DOMAIN h : h[b].right = a})

\* every pointer is null or addresses a live node, and no node is held by two
\* slots: what is reachable from the root is then a finite tree
WellFormed(h, r) ==
  /\ r \in DOMAIN h \cup {NULL}
  /\ \A b \in DOMAIN h : /\ h[b].left \in DOMAIN h \cup {NULL}
                         /\ h[b].right \in DOMAIN h \cup {NULL}
  /\ \A a \in DOMAIN h : Refs(h, r, a) <= 1

\* addresses of the nodes below slot value a, in pre-order
RECURSIVE Nodes(_, _)
Nodes(h, a) ==
  IF a \notin DOMAIN h THEN <<>>
  ELSE <<a>> \o Nodes(h, h[a].left) \o Nodes(h, h[a].right)

SeqRange(s) == {s[i] : i \in 1..Len(s)}

RECURSIVE Ascending(_)
Ascending(S) ==
  IF S = {} THEN <<>>
  ELSE LET x == CHOOSE y \in S : \A z \in S : y <= z
       IN <<x>> \o Ascending(S \ {x})

\* the tree below a as a value: <<>> or <<data, left tree, right tree>>
RECURSIVE Shape(_, _)
Shape(h, a) ==
  IF a \notin DOMAIN h THEN <<>>
  ELSE <<h[a].data, Shape(h, h[a].left), Shape(h, h[a].right)>>

\* Renaming of addresses between calls: the nodes reachable from the root get
\* their pre-order numbers, the live nodes that are not reachable (leaked)
\* the numbers after those.  A heap that is not well formed is left as it is.
Canon(m) ==
  IF ~WellFormed(m.heap, m.root) THEN [heap |-> m.heap, root |-> m.root]
  ELSE LET reach == Nodes(m.heap, m.root)
           order == reach \o Ascending(DOMAIN m.heap \ SeqRange(reach))
           Ren(a) == IF a = NULL THEN NULL
                     ELSE CHOOSE i \in 1..Len(order) : order[i] = a
       IN [heap |-> [i \in 1..Len(order) |->
                       [data |-> m.heap[order[i]].data,
                        left |-> Ren(m.heap[order[i]].left),
                        right |-> Ren(m.heap[order[i]].right)]],
           root |-> Ren(m.root)]

\* ------------------------------------------------------------------- actions
\* the tree object exists and nothing undefined has happened
Usable == ~ub /\ last.op # "destroy"

\* what a call leaves behind: the memory, renamed, and the record of the call
Return(m, op, arg, byRef, ret, node, out) ==
  LET c == Canon(m)
  IN /\ heap' = c.heap
     /\ root' = c.root
     /\ ub' = m.ub
     /\ last' = [op |-> op, arg |-> arg, byRef |-> byRef, ret |-> ret,
                 node |-> node, out |-> out, deleted |-> m.deleted,
                 created |-> m.created, cases |-> m.cases, inner |-> m.inner]

\* BST(): root{nullptr}
Init ==
  /\ heap = <<>>
  /\ root = NULL
  /\ keys \in Universes
  /\ model = {}
  /\ ub = FALSE
  /\ nIns = 0
  /\ nRem = 0
  /\ last = [op |-> "new", arg |-> 0, byRef |-> FALSE, ret |-> FALSE,
             node |-> NULL, out |-> <<>>, deleted |-> <<>>, created |-> 0,
             cases |-> <<>>, inner |-> <<>>]

\* bool insert(const T& value), called with a value of the caller
Insert(v) ==
  /\ Usable
  /\ LET r == insert(Mem(heap, root), RootSlot, ExtRef(v))
     IN Return(r.m, "insert", v, FALSE, r.ret, NULL, <<>>)
  /\ model' = model \cup {v}
  /\ UNCHANGED keys

\* bool remove(const T& value), called with a value of the caller
Remove(v) ==
  /\ Usable
  /\ LET r == remove(Mem(heap, root), RootSlot, ExtRef(v))
     IN Return(r.m, "remove", v, FALSE, r.ret, NULL, <<>>)
  /\ model' = model \ {v}
  /\ UNCHANGED keys

\* remove(find_node(v)->data): the argument is a reference into the tree
RemoveByRef(v) ==
  /\ Usable
  /\ LET f == find_node(Mem(heap, root), root, ExtRef(v))
     IN /\ f.ret # NULL
        /\ LET r == remove(f.m, RootSlot, NodeRef(f.ret))
           IN Return(r.m, "remove", v, TRUE, r.ret, f.ret, <<>>)
  /\ model' = model \ {v}
  /\ UNCHANGED keys

\* bool contain(const T& value) const
Contain(v) ==
  /\ Usable
  /\ LET r == contain(Mem(heap, root), root, ExtRef(v))
     IN Return(r.m, "contain", v, FALSE, r.ret, NULL, <<>>)
  /\ UNCHANGED <<keys, model>>

\* TreeNode* find_node(const T& value) const
FindNode(v) ==
  /\ Usable
  /\ LET r == find_node(Mem(heap, root), root, ExtRef(v))
     IN Return(r.m, "find_node", v, FALSE, r.ret # NULL, r.ret, <<>>)
  /\ UNCHANGED <<keys, model>>

\* std::vector<T> in_order() const
InOrder ==
  /\ Usable
  /\ Return(Mem(heap, root), "in_order", 0, FALSE, FALSE, NULL, in_order(heap, root))
  /\ UNCHANGED <<keys, model>>

\* std::vector<T> pre_order() const
PreOrder ==
  /\ Usable
  /\ Return(Mem(heap, root), "pre_order", 0, FALSE, FALSE, NULL, pre_order(heap, root))
  /\ UNCHANGED <<keys, model>>

\* std::vector<T> post_order() const
PostOrder ==
  /\ Usable
  /\ Return(Mem(heap, root), "post_order", 0, FALSE, FALSE, NULL, post_order(heap, root))
  /\ UNCHANGED <<keys, model>>

\* ~BST(): delete root
Destroy ==
  /\ Usable
  /\ Return(Delete(Mem(heap, root), root), "destroy", 0, FALSE, FALSE, NULL, <<>>)
  /\ UNCHANGED <<keys, model>>

\* the counters of SpecCount: left alone, or driven by the call just made
NoCount == UNCHANGED <<nIns, nRem>>

Count ==
  /\ nIns' = nIns + (IF last'.op = "insert" /\ last'.ret THEN 1 ELSE 0)
  /\ nRem' = nRem + (IF last'.op = "remove" /\ last'.ret THEN 1 ELSE 0)

Next ==
  \/ \E v \in keys : Insert(v) /\ NoCount
  \/ \E v \in keys : Remove(v) /\ NoCount
  \/ \E v \in keys : RemoveByRef(v) /\ NoCount
  \/ \E v \in keys : Contain(v) /\ NoCount
  \/ \E v \in keys : FindNode(v) /\ NoCount
  \/ InOrder /\ NoCount
  \/ PreOrder /\ NoCount
  \/ PostOrder /\ NoCount
  \/ Destroy /\ NoCount

Spec == Init /\ [][Next]_vars

\* the two-children scenario: its seven keys, inserted and removed at will
InitExample ==
  /\ heap = <<>>
  /\ root = NULL
  /\ keys = ExampleKeys
  /\ model = {}
  /\ ub = FALSE
  /\ nIns = 0
  /\ nRem = 0
  /\ last = [op |-> "new", arg |-> 0, byRef |-> FALSE, ret |-> FALSE,
             node |-> NULL, out |-> <<>>, deleted |-> <<>>, created |-> 0,
             cases |-> <<>>, inner |-> <<>>]

NextExample ==
  \/ \E v \in keys : Insert(v) /\ NoCount
  \/ \E v \in keys : Remove(v) /\ NoCount

SpecExample == InitExample /\ [][NextExample]_vars

\* the calls that change the tree, counted; a counter stops at MaxInserts
NextCount ==
  \/ \E v \in keys : nIns < MaxInserts /\ Insert(v) /\ Count
  \/ \E v \in keys : Remove(v) /\ Count
  \/ \E v \in keys : RemoveByRef(v) /\ Count

SpecCount == Init /\ [][NextCount]_vars


\* ------------------------------------------------ vocabulary of the properties
\* the values stored below slot value a
SubtreeValues(h, a) == {h[b].data : b \in SeqRange(Nodes(h, a))}

StrictlyAscending(s) == \A i \in 1..(Len(s) - 1) : s[i] < s[i + 1]

\* the memory after inserting the elements of s, in order, into memory m
RECURSIVE InsertAll(_, _)
InsertAll(m, s) ==
  IF s = <<>> THEN m
  ELSE InsertAll(insert(m, RootSlot, ExtRef(Head(s))).m, Tail(s))

\* a fresh tree into which the elements of s were inserted in order
Build(s) == InsertAll(Mem(<<>>, NULL), s)

\* On trees as values (<<>> or <<value, left, right>>): the subtree whose top
\* holds v, the tree with that subtree replaced, the least value, and the
\* tree without the node that holds its least value.
RECURSIVE SubtreeAt(_, _)
SubtreeAt(t, v) ==
  IF t = <<>> THEN <<>>
  ELSE IF v < t[1] THEN SubtreeAt(t[2], v)
  ELSE IF t[1] < v THEN SubtreeAt(t[3], v)
  ELSE t

RECURSIVE ReplaceAt(_, _, _)
ReplaceAt(t, v, new) ==
  IF t = <<>> THEN <<>>
  ELSE IF v < t[1] THEN <<t[1], ReplaceAt(t[2], v, new), t[3]>>
  ELSE IF t[1] < v THEN <<t[1], t[2], ReplaceAt(t[3], v, new)>>
  ELSE new

RECURSIVE MinOf(_)
MinOf(t) == IF t[2] = <<>> THEN t[1] ELSE MinOf(t[2])

RECURSIVE DropMin(_)
DropMin(t) == IF t[2] = <<>> THEN t[3] ELSE <<t[1], DropMin(t[2]), t[3]>>

\* the slots that hold address a
Holders(h, r, a) ==
  {[node |-> b, field |-> "left"] : b \in {c \in DOMAIN h : h[c].left = a}}
  \cup {[node |-> b, field |-> "right"] : b \in {c \in DOMAIN h : h[c].right = a}}
  \cup (IF r = a THEN {RootSlot} ELSE {})

\* ---------------------------------------------------------------------- C1
\* C1: after any sequence of insert and remove calls on a tree that started
\* empty, every node's left subtree holds only smaller values and its right
\* subtree only greater ones, and in_order() is strictly ascending.
OrderingInvariant ==
  /\ \A n \in DOMAIN heap :
       /\ \A x \in SubtreeValues(heap, heap[n].left) : x < heap[n].data
       /\ \A x \in SubtreeValues(heap, heap[n].right) : heap[n].data < x
  /\ StrictlyAscending(in_order(heap, root))

OrderingWitness ==
  /\ last.op = "remove" /\ last.ret /\ last.cases = <<4, 2>>
  /\ Cardinality(DOMAIN heap) >= 4

\* ---------------------------------------------------------------------- C2
\* C2: contain(v) is true exactly for the values of the reference set (inserted
\* and not removed since), and a contain call leaves the tree as it was.
ContainAgreesWithModel ==
  /\ [](Usable =>
          \A v \in keys : contain(Mem(heap, root), root, ExtRef(v)).ret = (v \in model))
  /\ [][last'.op = "contain" =>
          /\ last'.ret = (last'.arg \in model)
          /\ heap' = heap /\ root' = root /\ ub' = ub
          /\ last'.created = 0 /\ last'.deleted = <<>>]_vars

ContainWitness ==
  /\ last.op = "contain" /\ last.ret
  /\ Cardinality(model) >= 3
  /\ \E n \in DOMAIN heap : heap[n].data = last.arg /\ n # root

\* ---------------------------------------------------------------------- C3
\* C3: the length of in_order(), which is the number of nodes, equals the
\* number of insert calls that returned true minus the number of remove calls
\* that returned true.
CountConservation ==
  /\ Len(in_order(heap, root)) = nIns - nRem
  /\ Cardinality(DOMAIN heap) = nIns - nRem

CountWitness ==
  /\ nIns >= 4 /\ nRem >= 2
  /\ last.op = "remove" /\ last.ret /\ 4 \in SeqRange(last.cases)

\* ---------------------------------------------------------------------- C4
\* C4: insert of a value that is present and remove of a value that is absent
\* return false and leave the tree exactly as it was (same nodes, shape and
\* values, hence the same three traversals); remove on an empty tree returns
\* false.
FailedCallLeavesTree ==
  [][/\ ( \/ last'.op = "insert" /\ last'.arg \in SubtreeValues(heap, root)
          \/ last'.op = "remove" /\ last'.arg \notin SubtreeValues(heap, root) )
        => /\ last'.ret = FALSE
           /\ heap' = heap /\ root' = root /\ ub' = ub
           /\ last'.created = 0 /\ last'.deleted = <<>>
           /\ in_order(heap', root') = in_order(heap, root)
           /\ pre_order(heap', root') = pre_order(heap, root)
           /\ post_order(heap', root') = post_order(heap, root)
     /\ (last'.op = "remove" /\ root = NULL) => last'.ret = FALSE]_vars

FailedCallWitness ==
  /\ last.op = "insert" /\ last.ret = FALSE
  /\ Cardinality(DOMAIN heap) >= 3

\* ---------------------------------------------------------------------- C5
\* the tree of the scenario: 50, 30, 70, 20, 40, 60, 80 inserted into an empty tree
ExampleTree == Build(<<50, 30, 70, 20, 40, 60, 80>>)

\* C5: a remove that finds its value in a node x with two children returns
\* true, leaves x in its slot with its left subtree, gives x the least value
\* of its former right subtree and destroys only the node of that subtree
\* which held this value; on the scenario tree, remove(50) leaves 60 at the
\* root, in_order() = 20,30,40,60,70,80 and contain(50) false.
TwoChildrenRemoval ==
  [][last'.op = "remove" =>
      /\ \A x \in DOMAIN heap :
           (heap[x].data = last'.arg /\ heap[x].left # NULL /\ heap[x].right # NULL)
           => LET t == Shape(heap, root)
                  X == SubtreeAt(t, last'.arg)
              IN /\ last'.ret
                 /\ ~ub'
                 /\ Shape(heap', root') =
                      ReplaceAt(t, last'.arg, <<MinOf(X[3]), X[2], DropMin(X[3])>>)
                 /\ x \in DOMAIN heap'
                 /\ heap'[x].data = MinOf(X[3])
                 /\ heap'[x].left = heap[x].left
                 /\ Shape(heap', heap'[x].left) = Shape(heap, heap[x].left)
                 /\ Holders(heap', root', x) = Holders(heap, root, x)
                 /\ last'.created = 0
                 /\ \E b \in SeqRange(Nodes(heap, heap[x].right)) :
                      /\ heap[b].data = MinOf(X[3])
                      /\ last'.deleted = <<b>>
                 /\ Cardinality(DOMAIN heap') = Cardinality(DOMAIN heap) - 1
      /\ (Shape(heap, root) = Shape(ExampleTree.heap, ExampleTree.root) /\ last'.arg = 50)
         => /\ last'.ret
            /\ heap'[root'].data = 60
            /\ in_order(heap', root') = <<20, 30, 40, 60, 70, 80>>
            /\ ~contain(Mem(heap', root'), root', ExtRef(50)).ret]_vars

TwoChildrenWitness ==
  /\ last.op = "remove" /\ last.arg = 50 /\ last.ret /\ last.cases = <<4, 1>>
  /\ Shape(heap, root) = ReplaceAt(Shape(ExampleTree.heap, ExampleTree.root), 50,
                                   <<60, <<30, <<20, <<>>, <<>>>>, <<40, <<>>, <<>>>>>>,
                                     <<70, <<>>, <<80, <<>>, <<>>>>>>>>)


\* ---------------------------------------------------------------------- C6
\* no slot holds a destroyed node, the root is held by the root slot only,
\* every other live node by exactly one left or right field, and every live
\* node is reachable from the root
Owned(h, r) ==
  /\ r \in DOMAIN h \cup {NULL}
  /\ \A b \in DOMAIN h : /\ h[b].left \in DOMAIN h \cup {NULL}
                         /\ h[b].right \in DOMAIN h \cup {NULL}
  /\ \A a \in DOMAIN h :
       IF a = r THEN Holders(h, r, a) = {RootSlot}
       ELSE Cardinality(Holders(h, r, a)) = 1
  /\ SeqRange(Nodes(h, r)) = DOMAIN h

\* C6: at every moment each live node but the root is held by exactly one
\* parent slot and every node not yet destroyed is reachable from the root; a
\* remove that returns true destroys exactly one node, once, and it is not a
\* node that remains reachable; a call that fails or only reads destroys
\* nothing; destroying the tree destroys every remaining node exactly once.
Ownership ==
  /\ [](~ub /\ (Usable => Owned(heap, root)))
  /\ [][/\ (last'.op = "remove" /\ last'.ret) =>
             /\ Len(last'.deleted) = 1
             /\ last'.deleted[1] \in DOMAIN heap
             /\ Cardinality(DOMAIN heap') = Cardinality(DOMAIN heap) - 1
        /\ (last'.op = "remove" /\ ~last'.ret) =>
             (last'.deleted = <<>> /\ heap' = heap)
        /\ last'.op = "destroy" =>
             /\ heap' = <<>>
             /\ Len(last'.deleted) = Cardinality(DOMAIN heap)
             /\ SeqRange(last'.deleted) = DOMAIN heap
        /\ last'.op \notin {"remove", "destroy"} => last'.deleted = <<>>]_vars

OwnershipWitness ==
  /\ last.op = "destroy"
  /\ Len(last.deleted) >= 4
  /\ heap = <<>>

\* ---------------------------------------------------------------------- C7
\* C7: when a remove enters the two-children case, the recursive remove of the
\* successor's value finds it (returns true) and ends in the leaf case or the
\* only-right-child case, so the two-children case is entered once per call.
TwoChildrenCaseOnce ==
  (last.op = "remove" /\ 4 \in SeqRange(last.cases)) =>
     /\ last.cases \in {<<4, 1>>, <<4, 2>>}
     /\ last.inner = <<TRUE>>
     /\ last.ret

TwoChildrenCaseWitness ==
  /\ last.op = "remove" /\ ~last.byRef
  /\ last.cases = <<4, 2>> /\ last.inner = <<TRUE>>
  /\ last.deleted = <<4>>
  /\ Cardinality(DOMAIN heap) = 4

\* ---------------------------------------------------------------------- C8
\* the tree of the scenario: 10, 5, 1 inserted into an empty tree
SkewedTree == Build(<<10, 5, 1>>)

\* C8: a remove that finds its value in a node x with exactly one child
\* returns true and puts that child into the slot which held x; the child's
\* subtree and everything outside x keep shape and values, and x is the only
\* node destroyed; on the scenario tree, remove(5) leaves node 1 as the left
\* child of 10 and in_order() = 1,10.
SingleChildRemoval ==
  [][last'.op = "remove" =>
      /\ \A x \in DOMAIN heap :
           (heap[x].data = last'.arg /\ (heap[x].left = NULL) # (heap[x].right = NULL))
           => LET t == Shape(heap, root)
                  child == IF heap[x].left = NULL THEN heap[x].right ELSE heap[x].left
              IN /\ last'.ret
                 /\ ~ub'
                 /\ last'.cases = <<IF heap[x].left = NULL THEN 2 ELSE 3>>
                 /\ Shape(heap', root') = ReplaceAt(t, last'.arg, Shape(heap, child))
                 /\ last'.deleted = <<x>>
                 /\ last'.created = 0
                 /\ Cardinality(DOMAIN heap') = Cardinality(DOMAIN heap) - 1
                 /\ SeqRange(Nodes(heap', root')) = DOMAIN heap'
      /\ (Shape(heap, root) = Shape(SkewedTree.heap, SkewedTree.root) /\ last'.arg = 5)
         => /\ last'.ret
            /\ heap'[root'].data = 10
            /\ heap'[root'].left # NULL
            /\ heap'[heap'[root'].left] = [data |-> 1, left |-> NULL, right |-> NULL]
            /\ in_order(heap', root') = <<1, 10>>]_vars

SingleChildWitness ==
  /\ last.op = "remove" /\ last.arg = 5 /\ last.ret /\ last.cases = <<3>>
  /\ Shape(heap, root) = <<10, <<1, <<>>, <<>>>>, <<>>>>

\* ---------------------------------------------------------------------- C9
\* C9: inserting the elements of pre_order(), in order, into a fresh tree
\* gives a tree of the same shape and values, hence the same three traversals.
PreOrderRoundTrip ==
  Usable =>
    LET b == Build(pre_order(heap, root))
    IN /\ ~b.ub
       /\ Shape(b.heap, b.root) = Shape(heap, root)
       /\ pre_order(b.heap, b.root) = pre_order(heap, root)
       /\ in_order(b.heap, b.root) = in_order(heap, root)
       /\ post_order(b.heap, b.root) = post_order(heap, root)

PreOrderRoundTripWitness ==
  /\ last.op = "pre_order"
  /\ Len(last.out) >= 5
  /\ heap[root].left # NULL /\ heap[root].right # NULL
  /\ last.out # in_order(heap, root)

\* --------------------------------------------------------------------- C10
\* C10: no call reads or writes a field of a destroyed node.  That holds in
\* particular for a remove whose argument refers to the data of a node of the
\* tree, as the recursive call of the two-children case does with the
\* successor it destroys and as remove(find_node(v)->data) does; such a call
\* returns true and leaves a well-formed, ordered tree.
NoUseAfterDestroy ==
  /\ ~ub
  /\ (last.op = "remove" /\ (last.byRef \/ 4 \in SeqRange(last.cases))) =>
       /\ last.ret
       /\ \A i \in 1..Len(last.inner) : last.inner[i]
       /\ WellFormed(heap, root)
       /\ StrictlyAscending(in_order(heap, root))
       /\ last.arg \notin SubtreeValues(heap, root)

NoUseAfterDestroyWitness ==
  /\ last.op = "remove" /\ last.byRef /\ last.ret
  /\ last.cases = <<4, 1>>
  /\ last.deleted # <<last.node>>

====
